---- MODULE Spec2Model ----
(***************************************************************************)
(* Model of my_server: MyServer (the handle and its runner process) and    *)
(* ClientHandler (one worker thread per accepted connection), together     *)
(* with the caller and the clients of test.py.                             *)
(*                                                                         *)
(* Every blocking call (Process.join, Thread.join) is a step of its own,   *)
(* so that the other processes and threads interleave with it.  The        *)
(* socket calls shutdown(), close(), accept() and getpeername() are taken  *)
(* to return normally; send() has the three outcomes the worker's loop     *)
(* distinguishes (returns, raises reset/abort, raises anything else).      *)
(***************************************************************************)
EXTENDS Integers, Sequences, FiniteSets, TLC

\* ---- bounds ----
NumClients == 2          \* clients that may connect

Clients == 1..NumClients

VARIABLES
    soc,             \* MyServer._soc: "created" | "listening" | "closed"
    server_enabled,  \* MyServer._server_enabled (multiprocessing.Event)
    server_proc,     \* MyServer._server_proc: "initial" | "started" | "closed"
    caller,          \* the caller's position: "idle" | "join"
    scope,           \* with-statement: "none" | "body" | "exit" (in __exit__, block ended
                     \* normally) | "exit_exc" (in __exit__, block raised) |
                     \* "left" (completed) | "raised" (an exception left the statement)
    result,          \* outcome of the most recent call: "none" | "setup_ok" |
                     \* "setup_assert" | "setup_oserror" | "end_ok" | "end_assert" |
                     \* "end_valueerror"; "end_called" while end() has not returned
    running,         \* a setup() has returned and end() was not called since
    runner,          \* position of _server_loop
    active_clients,  \* MyServer._active_clients in the runner process
    it,              \* index of the list iterator of the current for-loop
    watch_scan,      \* whether scan_dead is recorded (fixed by the initial state)
    scan_dead,       \* history, when recorded: the handlers that were not alive when
                     \* the current reap scan began
    backlog,         \* connections completed on soc and not yet accepted
    client,          \* per client: "idle" | "connected" | "closed"
    thread,          \* per worker: position of _client_loop, or how it ended:
                     \* "stopped" (flag seen clear) | "disconnected" (caught) | "raised"
    client_enabled,  \* per worker: ClientHandler._client_enabled
    sent,            \* per worker: send() has been called at least once
    send_error,      \* per worker: what its failing send() raised: "none" | "reset" | "other"
    closes,          \* per worker: number of times its socket was shut down and closed
    handler_soc,     \* per worker: ClientHandler._soc, the connection accept() returned
    writes           \* per connection: the <<worker, payload>> send() calls made on it

vars == << soc, server_enabled, server_proc, caller, scope, result, running,
           runner, active_clients, it, watch_scan, scan_dead, backlog, client, thread, client_enabled,
           sent, send_error, closes, handler_soc, writes >>

handle_vars == << soc, server_enabled, server_proc, caller, scope, result, running >>
runner_vars == << runner, active_clients, it, watch_scan, scan_dead >>
worker_vars == << thread, client_enabled, sent, send_error, closes, handler_soc,
                 writes >>
net_vars    == << backlog, client >>

Min(a, b) == IF a < b THEN a ELSE b

\* ---- MyServer.__init__ / ClientHandler fields before any connection ----
Init ==
    /\ soc = "created"
    /\ server_enabled = FALSE
    /\ server_proc = "initial"
    /\ caller = "idle"
    /\ scope = "none"
    /\ result = "none"
    /\ running = FALSE
    /\ runner = "none"
    /\ active_clients = << >>
    /\ it = 1
    /\ watch_scan = FALSE
    /\ scan_dead = {}
    /\ backlog = << >>
    /\ client = [c \in Clients |-> "idle"]
    /\ thread = [c \in Clients |-> "none"]
    /\ client_enabled = [c \in Clients |-> FALSE]
    /\ sent = [c \in Clients |-> FALSE]
    /\ send_error = [c \in Clients |-> "none"]
    /\ closes = [c \in Clients |-> 0]
    /\ handler_soc = [c \in Clients |-> 0]
    /\ writes = [c \in Clients |-> {}]

\* ---- observers ----
\* MyServer.is_alive: Process.is_alive()
is_alive == server_proc = "started" /\ runner # "done"

\* an is_alive that stays true once the thread was started
handler_was_started(h) == thread[h] # "none"

\* ClientHandler.is_alive: Thread.is_alive(), true from start() until the target returns
handler_is_alive(h) == thread[h] \in {"start", "check", "send"}

\* ---- MyServer.setup ----
\* the assert of setup()
setup_precondition == ~server_enabled

\* bind() raises on a socket that is already bound or closed, or when the address is taken
bind_raises(in_use) == soc # "created" \/ in_use

setup_call(in_use, entering) ==
    IF ~setup_precondition
    THEN /\ result' = "setup_assert"
         /\ UNCHANGED << soc, server_proc, runner, running >>
         /\ scope' = IF entering THEN "none" ELSE scope
    ELSE IF bind_raises(in_use)
    THEN /\ result' = "setup_oserror"
         /\ UNCHANGED << soc, server_proc, runner, running >>
         /\ scope' = IF entering THEN "none" ELSE scope
    ELSE /\ soc' = "listening"
         /\ server_proc' = "started"
         /\ runner' = "start"
         /\ result' = "setup_ok"
         /\ running' = TRUE
         /\ scope' = IF entering THEN "body" ELSE scope

setup ==
    /\ caller = "idle" /\ scope # "body"
    /\ \E in_use \in BOOLEAN : setup_call(in_use, FALSE)
    /\ UNCHANGED << server_enabled, caller, active_clients, it, watch_scan, scan_dead >>
    /\ UNCHANGED << worker_vars, net_vars >>

\* MyServer.__enter__
enter ==
    /\ caller = "idle" /\ scope # "body"
    /\ \E in_use \in BOOLEAN : setup_call(in_use, TRUE)
    /\ UNCHANGED << server_enabled, caller, active_clients, it, watch_scan, scan_dead >>
    /\ UNCHANGED << worker_vars, net_vars >>

\* ---- MyServer.end ----
\* end() up to the point where join() is entered
end_clear ==
    /\ server_enabled' = FALSE
    /\ running' = FALSE
    /\ caller' = "join"
    /\ result' = "end_called"

end ==
    /\ caller = "idle" /\ scope # "body"
    /\ end_clear
    /\ UNCHANGED << soc, server_proc, scope >>
    /\ UNCHANGED << runner_vars, worker_vars, net_vars >>

\* the with-block finishes, normally or by raising, and __exit__ calls end()
exit ==
    /\ caller = "idle" /\ scope = "body"
    /\ \E block_raised \in BOOLEAN :
         scope' = IF block_raised THEN "exit_exc" ELSE "exit"
    /\ end_clear
    /\ UNCHANGED << soc, server_proc >>
    /\ UNCHANGED << runner_vars, worker_vars, net_vars >>

\* an __exit__ that returns a true value
exit_suppresses_always == TRUE

\* the value __exit__ returns: None, so the block's exception is not suppressed
exit_suppresses == FALSE

\* a join() that does not wait
join_returns_at_once == TRUE

\* Process.join() returns once the process has terminated
join_returns == runner = "done"

\* join(), close() of the process, close() of the listening socket
end_join ==
    /\ caller = "join"
    /\ IF server_proc = "initial"
       THEN /\ result' = "end_assert"
            /\ UNCHANGED << soc, server_proc >>
       ELSE IF server_proc = "closed"
       THEN /\ result' = "end_valueerror"
            /\ UNCHANGED << soc, server_proc >>
       ELSE /\ join_returns
            /\ server_proc' = "closed"
            /\ soc' = "closed"
            /\ result' = "end_ok"
    /\ caller' = "idle"
    /\ scope' = IF scope \in {"exit", "exit_exc"}
                THEN IF result' # "end_ok" \/ (scope = "exit_exc" /\ ~exit_suppresses)
                     THEN "raised" ELSE "left"
                ELSE scope
    /\ UNCHANGED << server_enabled, running >>
    /\ UNCHANGED << runner_vars, worker_vars, net_vars >>

\* ---- ClientHandler.cleanup ----
cleanup_clear(h) == client_enabled' = [client_enabled EXCEPT ![h] = FALSE]

\* a Thread.join() that does not wait
thread_joined_at_once(h) == TRUE

\* Thread.join() returns once the thread has terminated
thread_joined(h) == thread[h] \in {"stopped", "disconnected", "raised"}

cleanup_close(h) ==
    /\ thread_joined(h)
    /\ closes' = [closes EXCEPT ![h] = Min(@ + 1, 2)]

\* ---- MyServer._server_loop ----
\* a loop entry that does not set the run-flag
server_loop_start_unset ==
    /\ runner = "start"
    /\ runner' = "check"
    /\ UNCHANGED << soc, server_enabled, server_proc, caller, scope, result, running,
                    active_clients, it, watch_scan, scan_dead >>
    /\ UNCHANGED << worker_vars, net_vars >>

server_loop_start ==
    /\ runner = "start"
    /\ server_enabled' = TRUE
    /\ runner' = "check"
    /\ UNCHANGED << soc, server_proc, caller, scope, result, running,
                    active_clients, it, watch_scan, scan_dead >>
    /\ UNCHANGED << worker_vars, net_vars >>

\* a loop test that also goes on while a connection is pending
server_loop_check_pending ==
    /\ runner = "check"
    /\ IF server_enabled \/ backlog # << >>
       THEN runner' = "select" /\ it' = it
       ELSE runner' = "sweep" /\ it' = 1
    /\ UNCHANGED << handle_vars, active_clients, watch_scan, scan_dead >>
    /\ UNCHANGED << worker_vars, net_vars >>

server_loop_check ==
    /\ runner = "check"
    /\ IF server_enabled
       THEN runner' = "select" /\ it' = it
       ELSE runner' = "sweep" /\ it' = 1
    /\ UNCHANGED << handle_vars, active_clients, watch_scan, scan_dead >>
    /\ UNCHANGED << worker_vars, net_vars >>

\* a select() that never reports the listening socket
readable_never == << >>

\* select() reports the listening socket readable when a connection is pending;
\* the for-loop over readable then runs once and accepts one connection
readable == IF backlog # << >> THEN << "soc" >> ELSE << >>

\* ClientHandler.__init__: the fields and Thread.start()
handler_init(c) ==
    /\ handler_soc' = [handler_soc EXCEPT ![c] = c]
    /\ thread' = [thread EXCEPT ![c] = "start"]
    /\ client_enabled' = [client_enabled EXCEPT ![c] = FALSE]

server_loop_accept ==
    /\ runner = "select"
    /\ IF Len(readable) > 0
       THEN /\ active_clients' = Append(active_clients, Head(backlog))
            /\ handler_init(Head(backlog))
            /\ backlog' = Tail(backlog)
       ELSE UNCHANGED << active_clients, thread, client_enabled, handler_soc, backlog >>
    /\ runner' = "reap"
    /\ it' = 1
    /\ scan_dead' = IF watch_scan
                    THEN {h \in Clients : thread_joined(h)
                            /\ \E i \in 1..Len(active_clients) : active_clients[i] = h}
                    ELSE {}
    /\ UNCHANGED << watch_scan, handle_vars, sent, send_error, closes, writes, client >>

\* a remove() that leaves the list as it is
remove_nothing(list, x) == list

\* a removal that drops the last entry of the list, whatever x is
remove_last(list, x) == SubSeq(list, 1, Len(list) - 1)

\* list.remove(x): drop the first occurrence of x
remove(list, x) ==
    LET first == CHOOSE i \in 1..Len(list) : list[i] = x /\ \A j \in 1..(i-1) : list[j] # x
    IN  [i \in 1..(Len(list) - 1) |-> IF i < first THEN list[i] ELSE list[i + 1]]

\* one step of "for handler in self._active_clients" in the poll loop:
\* the list iterator holds an index into the list being mutated
server_loop_reap ==
    /\ runner = "reap"
    /\ IF it > Len(active_clients)
       THEN /\ runner' = "check"
            /\ it' = 1
            /\ scan_dead' = {}
            /\ UNCHANGED << active_clients, client_enabled, closes >>
       ELSE LET handler == active_clients[it] IN
            /\ IF ~handler_is_alive(handler)
               THEN /\ cleanup_clear(handler)
                    /\ cleanup_close(handler)
                    /\ active_clients' = remove(active_clients, handler)
               ELSE UNCHANGED << active_clients, client_enabled, closes >>
            /\ it' = it + 1
            /\ runner' = "reap"
            /\ UNCHANGED scan_dead
    /\ UNCHANGED << handle_vars, net_vars, watch_scan, thread, sent, send_error,
                    handler_soc, writes >>

\* the final for-loop: next handler, cleanup() up to its join()
server_loop_sweep ==
    /\ runner = "sweep"
    /\ IF it > Len(active_clients)
       THEN /\ runner' = "done"
            /\ it' = 1
            /\ UNCHANGED client_enabled
       ELSE /\ cleanup_clear(active_clients[it])
            /\ runner' = "sweep_join"
            /\ it' = it
    /\ UNCHANGED << handle_vars, net_vars, active_clients, watch_scan, scan_dead, thread, sent,
                    send_error, closes, handler_soc, writes >>

\* the final for-loop: join(), shutdown() and close() of the handler
server_loop_sweep_join ==
    /\ runner = "sweep_join"
    /\ cleanup_close(active_clients[it])
    /\ it' = it + 1
    /\ runner' = "sweep"
    /\ UNCHANGED << handle_vars, net_vars, active_clients, watch_scan, scan_dead, thread,
                    client_enabled, sent, send_error, handler_soc, writes >>

\* ---- ClientHandler._client_loop ----
client_loop_start(c) ==
    /\ thread[c] = "start"
    /\ client_enabled' = [client_enabled EXCEPT ![c] = TRUE]
    /\ thread' = [thread EXCEPT ![c] = "check"]
    /\ UNCHANGED << handle_vars, runner_vars, net_vars, sent, send_error, closes,
                    handler_soc, writes >>

client_loop_check(c) ==
    /\ thread[c] = "check"
    /\ IF client_enabled[c]
       THEN thread' = [thread EXCEPT ![c] = "send"]
       ELSE thread' = [thread EXCEPT ![c] = "stopped"]
    /\ UNCHANGED << handle_vars, runner_vars, net_vars, client_enabled, sent,
                    send_error, closes, handler_soc, writes >>

\* what send() can do: return while the peer is connected; raise
\* ConnectionResetError/ConnectionAbortedError once it has disconnected;
\* raise anything else at any time
send_outcomes(c) ==
    (IF client[c] = "closed" THEN {"reset"} ELSE {"ok"}) \cup {"other"}

\* an except clause that catches nothing
caught_nothing(outcome) == FALSE

\* the except clause of the loop: the exceptions it catches
caught(outcome) == outcome = "reset"

\* bytes('Hello World', 'utf-8')
payload == "Hello World"

\* a send() on the socket of the oldest active handler
send_target_shared(h) == handler_soc[active_clients[1]]

\* the socket the loop of handler h sends on: its own self._soc
send_target(h) == handler_soc[h]

client_loop_send(c) ==
    /\ thread[c] = "send"
    /\ sent' = [sent EXCEPT ![c] = TRUE]
    /\ writes' = [writes EXCEPT ![send_target(c)] = @ \cup {<< c, payload >>}]
    /\ \E outcome \in send_outcomes(c) :
         IF outcome = "ok"
         THEN /\ thread' = [thread EXCEPT ![c] = "check"]
              /\ UNCHANGED send_error
         ELSE /\ thread' = [thread EXCEPT ![c] =
                               IF caught(outcome) THEN "disconnected" ELSE "raised"]
              /\ send_error' = [send_error EXCEPT ![c] = outcome]
    /\ UNCHANGED << handle_vars, runner_vars, backlog, client, client_enabled, closes,
                    handler_soc >>

\* ---- TestClient (test.py) ----
connect(c) ==
    /\ client[c] = "idle"
    /\ soc = "listening"
    /\ client' = [client EXCEPT ![c] = "connected"]
    /\ backlog' = Append(backlog, c)
    /\ UNCHANGED << handle_vars, runner_vars, worker_vars >>

disconnect(c) ==
    /\ client[c] = "connected"
    /\ client' = [client EXCEPT ![c] = "closed"]
    /\ UNCHANGED << handle_vars, runner_vars, worker_vars, backlog >>

\* ---- specification ----
server_loop ==
    \/ server_loop_start
    \/ server_loop_check
    \/ server_loop_accept
    \/ server_loop_reap
    \/ server_loop_sweep
    \/ server_loop_sweep_join

client_loop(c) ==
    \/ client_loop_start(c)
    \/ client_loop_check(c)
    \/ client_loop_send(c)

Next ==
    \/ setup
    \/ enter
    \/ end
    \/ exit
    \/ end_join
    \/ server_loop_start
    \/ server_loop_check
    \/ server_loop_accept
    \/ server_loop_reap
    \/ server_loop_sweep
    \/ server_loop_sweep_join
    \/ \E c \in Clients : client_loop_start(c)
    \/ \E c \in Clients : client_loop_check(c)
    \/ \E c \in Clients : client_loop_send(c)
    \/ \E c \in Clients : connect(c)
    \/ \E c \in Clients : disconnect(c)

Spec == Init /\ [][Next]_vars

\* the operating system schedules the runner process, every worker thread and
\* the caller blocked in join(); clients and new calls are under no obligation
FairSpec ==
    /\ Spec
    /\ WF_vars(server_loop)
    /\ \A c \in Clients : WF_vars(client_loop(c))
    /\ WF_vars(end_join)

\* the same program with the history of the reap scans recorded
InitScan ==
    /\ soc = "created"
    /\ server_enabled = FALSE
    /\ server_proc = "initial"
    /\ caller = "idle"
    /\ scope = "none"
    /\ result = "none"
    /\ running = FALSE
    /\ runner = "none"
    /\ active_clients = << >>
    /\ it = 1
    /\ watch_scan = TRUE
    /\ scan_dead = {}
    /\ backlog = << >>
    /\ client = [c \in Clients |-> "idle"]
    /\ thread = [c \in Clients |-> "none"]
    /\ client_enabled = [c \in Clients |-> FALSE]
    /\ sent = [c \in Clients |-> FALSE]
    /\ send_error = [c \in Clients |-> "none"]
    /\ closes = [c \in Clients |-> 0]
    /\ handler_soc = [c \in Clients |-> 0]
    /\ writes = [c \in Clients |-> {}]

ScanSpec == InitScan /\ [][Next]_vars

\* the server is set up once and kept running: end() is never called
setup_once == server_proc = "initial" /\ setup

NextRunning ==
    \/ setup_once
    \/ server_loop_start
    \/ server_loop_check
    \/ server_loop_accept
    \/ server_loop_reap
    \/ \E c \in Clients : client_loop_start(c)
    \/ \E c \in Clients : client_loop_check(c)
    \/ \E c \in Clients : client_loop_send(c)
    \/ \E c \in Clients : connect(c)
    \/ \E c \in Clients : disconnect(c)

RunningSpec ==
    /\ Init /\ [][NextRunning]_vars
    /\ WF_vars(server_loop)
    /\ \A c \in Clients : WF_vars(client_loop(c))

TypeOK ==
    /\ soc \in {"created", "listening", "closed"}
    /\ server_enabled \in BOOLEAN
    /\ server_proc \in {"initial", "started", "closed"}
    /\ caller \in {"idle", "join"}
    /\ scope \in {"none", "body", "exit", "exit_exc", "left", "raised"}
    /\ result \in {"none", "setup_ok", "setup_assert", "setup_oserror",
                   "end_called", "end_ok", "end_assert", "end_valueerror"}
    /\ runner \in {"none", "start", "check", "select", "reap", "sweep", "sweep_join", "done"}
    /\ \A c \in Clients : thread[c] \in {"none", "start", "check", "send", "stopped", "disconnected", "raised"}
    /\ \A c \in Clients : closes[c] \in 0..2

\* ---- properties ----
Active == {active_clients[i] : i \in 1..Len(active_clients)}
Created == {c \in Clients : thread[c] # "none"}
PollLoop == {"start", "check", "select", "reap"}

\* C1: once end() has returned after a successful setup(), every worker the
\* runner created has had its socket shut down and closed exactly once, and
\* no socket is ever closed twice.
C1_EveryWorkerClosedOnce ==
    /\ \A c \in Clients : closes[c] <= 1
    /\ server_proc = "closed" => \A c \in Created : closes[c] = 1

\* end() has returned, every client was served and closed once, one of them
\* by the final sweep while its connection was still open
C1_Witness ==
    /\ server_proc = "closed"
    /\ \A c \in Clients : closes[c] = 1
    /\ \E c \in Clients : client[c] = "connected"
    /\ \E c \in Clients : client[c] = "closed" /\ c \notin Active

\* C2: an end() that follows a successful setup() eventually returns.
C2_EndReturns ==
    (caller = "join" /\ server_proc = "started") ~> (caller = "idle")

\* C3: a worker's socket is closed only after the worker has called send()
\* on it at least once.
C3_SentBeforeClose ==
    \A c \in Clients : closes[c] >= 1 => sent[c]

\* C4: while the server keeps running, a worker whose client has
\* disconnected is eventually cleaned up and removed from the active set.
C4_DisconnectedIsReaped ==
    \A c \in Clients :
        (c \in Active /\ client[c] = "closed") ~> (c \notin Active /\ closes[c] = 1)

\* one of two workers was reaped after its client left, the other is still
\* served, and the server was never told to stop
C4_Witness ==
    /\ running /\ runner \in PollLoop
    /\ Cardinality(Created) >= 2
    /\ Len(active_clients) = Cardinality(Created) - 1
    /\ \E c \in Created : /\ c \notin Active
                            /\ closes[c] = 1
                            /\ thread[c] = "disconnected"
    /\ \E d \in Active : client[d] = "connected" /\ handler_is_alive(d)

\* C5: a setup() called after a successful setup(), with no end() in
\* between, fails the assertion.
C5_SecondSetupAsserts ==
    [][(running /\ result' # result
          /\ result' \in {"setup_ok", "setup_assert", "setup_oserror"})
       => result' = "setup_assert"]_vars

\* C6: the listening socket is closed only after the runner has terminated,
\* the runner terminates only after every worker left in the active set is
\* cleaned up, and it leaves the poll loop only with the run-flag cleared.
C6_ShutdownOrder ==
    /\ soc = "closed" => runner = "done"
    /\ runner = "done" => \A c \in Active : closes[c] = 1 /\ thread_joined(c)
    /\ runner \in {"sweep", "sweep_join", "done"} => ~server_enabled

\* the listening socket is closed after a sweep that had workers to clean up
C6_Witness ==
    /\ soc = "closed"
    /\ Len(active_clients) >= 1
    /\ \E c \in Active : thread[c] = "stopped"

\* C7: a send() that fails with reset/abort ends the loop of that worker by
\* a plain return; the step changes nothing of the runner, of the handle or
\* of any other worker, and the runner stays in its poll loop.
C7_DisconnectIsLocal ==
    /\ [](\A c \in Clients : send_error[c] = "reset" => thread[c] = "disconnected")
    /\ []((running /\ \E c \in Clients : send_error[c] = "reset")
             => runner \in PollLoop)
    /\ [][\A c \in Clients :
            (send_error[c] = "none" /\ send_error'[c] = "reset")
            => /\ UNCHANGED << handle_vars, runner_vars, client_enabled, closes >>
               /\ \A d \in Clients \ {c} : thread'[d] = thread[d]]_vars

\* a worker ended on a reset while another worker is still being served
C7_Witness ==
    /\ running
    /\ \E c \in Clients : send_error[c] = "reset" /\ closes[c] = 1
    /\ \E d \in Active : thread[d] = "send" /\ sent[d]

\* C8: the with-block is entered only through a setup() that succeeded,
\* leaving the block calls end() whether the block raised or not, and an
\* exception of the block leaves the with-statement.
C8_ScopedUse ==
    [][/\ (scope # "body" /\ scope' = "body")
           => (result' = "setup_ok" /\ runner' = "start")
       /\ (scope = "body" /\ scope' # "body")
           => (scope' \in {"exit", "exit_exc"} /\ caller' = "join" /\ ~server_enabled')
       /\ (scope = "exit" /\ scope' # "exit")
           => (caller = "join" /\ scope' = IF result' = "end_ok" THEN "left" ELSE "raised")
       /\ (scope = "exit_exc" /\ scope' # "exit_exc")
           => (caller = "join" /\ scope' = "raised")]_vars

\* a block that raised: end() has run to its end and the exception came out
C8_Witness ==
    /\ scope = "raised"
    /\ result = "end_ok"
    /\ soc = "closed"

\* C9: end() on a server whose runner was never started returns normally.
C9_EndWithoutSetup ==
    [][(caller = "join" /\ server_proc = "initial" /\ caller' = "idle")
       => result' = "end_ok"]_vars

\* C10: between a successful setup() and the next end(), is_alive is true
\* and the runner is in its poll loop.
C10_AliveWhileRunning ==
    running => (is_alive /\ runner \in PollLoop)

\* the server is still up after a client came, left and was reaped
C10_Witness ==
    /\ running /\ is_alive
    /\ \E c \in Clients : client[c] = "closed" /\ closes[c] = 1

\* C11: every send() made on a connection carries the payload 'Hello World'
\* and is made by the worker that was created for that connection.
C11_OwnSocketOnly ==
    \A c \in Clients : writes[c] \subseteq {<< c, "Hello World" >>}

\* two workers are being served at the same time and each has written its
\* payload on its own connection
C11_Witness ==
    /\ \A c \in Clients : writes[c] = {<< c, "Hello World" >>}
    /\ Cardinality({c \in Clients : handler_is_alive(c)}) >= 2

\* end() has cleared the run-flag of a runner that was started
EndCleared == (server_proc = "started" /\ caller = "join") \/ server_proc = "closed"

\* C12: once end() has cleared the run-flag of the runner, the flag is
\* never set again.
C12_OneShot ==
    [][(EndCleared /\ ~server_enabled) => ~server_enabled']_vars

\* C13: when a reap scan ends, every worker that was not alive when the scan
\* began has been cleaned up and is out of the active set.
C13_ScanReapsAllDead ==
    [][(runner = "reap" /\ runner' = "check")
       => \A h \in scan_dead : h \notin Active /\ closes[h] >= 1]_vars

\* C14: a cleanup() that the final sweep has entered eventually returns.
C14_CleanupReturns ==
    (runner = "sweep_join") ~> (runner # "sweep_join")

\* C15: a worker's socket is closed only after its thread has terminated,
\* so no worker is at its send() with its socket closed.
C15_ClosedAfterLoop ==
    \A c \in Clients : closes[c] >= 1 => (thread_joined(c) /\ ~handler_is_alive(c))

\* a worker that was still looping when cleanup() was called: it was stopped
\* through its flag after having sent, and then its socket was closed
C15_Witness ==
    \E c \in Clients : closes[c] = 1 /\ thread[c] = "stopped" /\ sent[c]

\* C16 as stated: in every reachable state a worker whose socket has been
\* closed is not a member of the active set.
C16_ClosedNotActive ==
    \A c \in Clients : closes[c] >= 1 => c \notin Active

\* C16 as amended: a worker leaves the active set only in the step that
\* closes its socket, it never enters the set again, and a worker whose
\* socket is closed is out of the set until the runner has left its poll
\* loop; the final sweep closes the remaining sockets and removes nothing.
C16_RemovedWhenReaped ==
    /\ [](\/ runner \in {"sweep", "sweep_join", "done"}
          \/ \A c \in Clients : closes[c] >= 1 => c \notin Active)
    /\ [][/\ runner \in {"sweep", "sweep_join"} => active_clients' = active_clients
          /\ active_clients' # active_clients
               => \A c \in Clients :
                    /\ (c \in Active /\ c \notin Active')
                         => (closes[c] = 0 /\ closes'[c] = 1 /\ runner = "reap")
                    /\ (c \in Created /\ c \notin Active) => c \notin Active']_vars

\* one worker was reaped in the poll loop and is out of the set, another was
\* closed by the final sweep and is still listed
C16_Witness ==
    /\ \E c \in Created : closes[c] = 1 /\ c \notin Active
    /\ \E d \in Active : closes[d] = 1

\* C17 as stated: a poll iteration accepts every connection that is pending
\* at its readiness check and adds one worker for each.
C17_AcceptsAllPending ==
    [][(runner = "select" /\ runner' = "reap")
       => /\ backlog' = << >>
          /\ Len(active_clients') = Len(active_clients) + Len(backlog)]_vars

\* C17 as amended: a poll iteration accepts the oldest pending connection,
\* if there is one, creates one worker for it and appends it to the active
\* set; the other pending connections stay pending.
C17_AcceptsOnePending ==
    [][(runner = "select" /\ runner' = "reap")
       => IF backlog = << >>
          THEN active_clients' = active_clients /\ thread' = thread
          ELSE /\ active_clients' = Append(active_clients, Head(backlog))
               /\ backlog' = Tail(backlog)
               /\ thread[Head(backlog)] = "none"
               /\ thread' = [thread EXCEPT ![Head(backlog)] = "start"]
               /\ handler_soc'[Head(backlog)] = Head(backlog)]_vars

\* two connections were pending at the readiness check: one worker was added
\* and one connection is still pending
C17_Witness ==
    /\ runner = "reap" /\ it = 1
    /\ Len(active_clients) = 1
    /\ thread[active_clients[1]] = "start"
    /\ Len(backlog) >= 1

\* C18: after end() has cleared the flag of a runner that is in its poll
\* loop, the flag stays clear, the next loop test leaves the loop for the
\* final sweep, and the runner never goes back into the poll loop; so it
\* finishes at most the iteration in progress.
C18_LeavesAtNextTest ==
    [][/\ (runner \in {"check", "select", "reap"} /\ EndCleared /\ ~server_enabled)
           => (~server_enabled' /\ EndCleared')
       /\ (runner = "check" /\ ~server_enabled /\ runner' # runner)
           => (runner' = "sweep" /\ active_clients' = active_clients /\ backlog' = backlog)
       /\ (runner \in {"sweep", "sweep_join", "done"})
           => (runner' \in {"sweep", "sweep_join", "done"})]_vars

\* the flag was cleared during an iteration; the runner has left the loop
\* for the sweep with a connection still pending and end() waiting
C18_Witness ==
    /\ runner = "sweep" /\ it = 1
    /\ caller = "join" /\ server_proc = "started"
    /\ backlog # << >>
    /\ active_clients # << >>

\* C19: a worker whose send() raised something other than reset/abort is
\* not alive from then on, and its socket is eventually closed by the reap
\* step or by the final sweep.
C19_RaisedIsCleaned ==
    /\ [](\A c \in Clients : send_error[c] = "other" => ~handler_is_alive(c))
    /\ \A c \in Clients : (send_error[c] = "other") ~> (closes[c] >= 1)
====
